---- MODULE Spec2Model ----
(***************************************************************************)
(* NLM Chatbot (app.py): the /chat and /reset handlers over the shared,    *)
(* process-wide session (conversation_history, question_count).            *)
(*                                                                         *)
(* A text is a sequence of chunks.  A chunk is one character, or a string  *)
(* literal of app.py taken whole (no literal that is stripped starts or    *)
(* ends with whitespace).  str.strip() and str.lower() work on the chunks. *)
(***************************************************************************)
EXTENDS Integers, Sequences, FiniteSets, TLC

VARIABLES
    conversation_history,  \* app.py:13  list of {"role", "content"} dicts
    question_count,        \* app.py:14
    request,               \* observer: the JSON body of the last /chat request
    answer,                \* observer: the upstream answer the last request got
    response,              \* what the last handler sent back to its caller
    outcome,               \* which exit of the handler the last request took
    posts,                 \* requests.post calls issued by the last request
    last_mode,             \* the mode the last /chat request selected (line 88)
    system_prompt,         \* the prompt the last request compiled (<<>>: none)
    sent,                  \* the message list the last request posted (<<>>: none)
    effects,               \* the side effects of the last request, in order
    logged,                \* the log_qa call of the last request and what it wrote
    successes,             \* observer: well-formed completions since start/reset
    exchanges,             \* observer: the last well-formed exchanges, oldest first
    flight,                \* per server thread: where its /chat request stands
    resetting,             \* a /reset request stands between lines 174 and 176
    origins,               \* observer: per stored turn, was its request overtaken
                           \* by a /reset (its place matches conversation_history)
    stale_turns,           \* observer: increments since the last /reset made by
                           \* requests that had started before it
    overlaps               \* observer: requests that started beside another one

(* What one request at a time leaves behind, and what requests served by   *)
(* threads side by side add to it.                                          *)
observers == <<request, answer, response, outcome, posts, last_mode,
               system_prompt, sent, effects, logged, successes, exchanges>>

threads == <<flight, resetting, origins, stale_turns, overlaps>>

vars == <<conversation_history, question_count, request, answer, response,
          outcome, posts, last_mode, system_prompt, sent, effects, logged,
          successes, exchanges, flight, resetting, origins, stale_turns,
          overlaps>>

----------------------------------------------------------------------------
(* Program constants *)

QUESTION_LIMIT == 40

HISTORY_CAP == 20

HTTP_OK == 200

(* Model bound: the stored entries that differ from the plain user text "a" *)
(* and assistant text "x" (the apologies of lines 150, 152) lie within this  *)
(* many consecutive exchanges of the stored window: upstream misbehaves in  *)
(* bursts of at most MaxBurst calls, one burst in the window at a time.     *)
MaxBurst == 1

----------------------------------------------------------------------------
(* Texts *)

IsSpace(c) == c \in {" ", "\t", "\n"}

RECURSIVE LStrip(_)
LStrip(t) == IF t # <<>> /\ IsSpace(Head(t)) THEN LStrip(Tail(t)) ELSE t

RECURSIVE RStrip(_)
RStrip(t) ==
    IF t # <<>> /\ IsSpace(t[Len(t)]) THEN RStrip(SubSeq(t, 1, Len(t) - 1)) ELSE t

Strip(t) == RStrip(LStrip(t))

UpperCase ==
    <<"A","B","C","D","E","F","G","H","I","J","K","L","M",
      "N","O","P","Q","R","S","T","U","V","W","X","Y","Z">>

LowerCase ==
    <<"a","b","c","d","e","f","g","h","i","j","k","l","m",
      "n","o","p","q","r","s","t","u","v","w","x","y","z">>

LowerChar(c) ==
    IF \E i \in 1..26 : UpperCase[i] = c
    THEN LowerCase[CHOOSE i \in 1..26 : UpperCase[i] = c]
    ELSE c

Lower(t) == [i \in 1..Len(t) |-> LowerChar(t[i])]

Min(a, b) == IF a <= b THEN a ELSE b

----------------------------------------------------------------------------
(* String literals of app.py *)

MODE_GENERAL == <<"g","e","n","e","r","a","l">>

MODE_MCA == <<"m","c","a">>

MODE_INTERVIEW == <<"i","n","t","e","r","v","i","e","w">>

MODE_CODE == <<"c","o","d","e">>

EMPTY_REPLY == <<"Please type a message first.">>

LIMIT_REPLY ==
    <<"You have reached the question limit for this free demo session. ",
      "Click 'New Chat' to start a fresh conversation.">>

NETWORK_REPLY ==
    <<"Network error while contacting the AI service. Please try again.">>

STATUS_REPLY(status_code) ==
    <<"The AI service returned an error (code ", ToString(status_code), "). ",
      "Please try again after some time.">>

NO_CHOICES_REPLY == <<"Sorry, I couldn't get a valid reply from the AI.">>

UNREADABLE_REPLY == <<"Sorry, something went wrong reading the AI response.">>

----------------------------------------------------------------------------
(* build_system_prompt *)

BasePrompt == <<"You are NLM Chatbot, ... never pretend you browsed the web. ">>

build_system_prompt(mode) ==
    LET extra ==
            IF mode = MODE_MCA THEN
                <<"Focus mainly on MCA-related topics: ... ">>
            ELSE IF mode = MODE_INTERVIEW THEN
                <<"Answer in a slightly formal tone, ... ">>
            ELSE IF mode = MODE_CODE THEN
                <<"Assume the user may paste code. ... ">>
            ELSE
                <<"You may also answer general knowledge, ... ">>
    IN  BasePrompt \o extra

----------------------------------------------------------------------------
(* The /chat request: request.get_json() gives a dict; each key may be      *)
(* missing, and a key that is present holds a string.                       *)

DictGet(d, key, default) == IF key \in d.keys THEN d[key] ELSE default

UserMessageUnstripped(req) == DictGet(req, "message", <<>>)

UserMessage(req) == Strip(DictGet(req, "message", <<>>))

ModeAsGiven(req) == DictGet(req, "mode", MODE_GENERAL)

Mode(req) == Lower(DictGet(req, "mode", MODE_GENERAL))

LimitReachedAbove(count) == count > QUESTION_LIMIT

LimitReached(count) == count >= QUESTION_LIMIT

StatusOkBelow500(status_code) == status_code < 500

StatusOk(status_code) == status_code = HTTP_OK

(* Lines 111-115: the message list sent upstream. *)
MessagesUserFirst(history, prompt, user_message) ==
    <<[role |-> "system", content |-> prompt]>>
        \o <<[role |-> "user", content |-> user_message]>>
        \o history

Messages(history, prompt, user_message) ==
    <<[role |-> "system", content |-> prompt]>>
        \o history
        \o <<[role |-> "user", content |-> user_message]>>

----------------------------------------------------------------------------
(* The upstream answer.  raises: requests.post raised (no connection,      *)
(* timeout).  Otherwise status_code and body are the response's.  A body   *)
(* is described by what each step of lines 146-148 finds in it:            *)
(*   valid    response.json() parses it                                    *)
(*   root     "object" | "array" | "null"  (the parsed value j)            *)
(*   choices  "missing" | "empty" | "null" | "list"  (j["choices"])        *)
(*   first    "object" | "null"            (j["choices"][0])               *)
(*   message  "missing" | "object" | "null"                                *)
(*   content  "missing" | "null" | "string", and text when it is a string  *)

Body(valid, root, choices, first, message, content, text) ==
    [valid |-> valid, root |-> root, choices |-> choices, first |-> first,
     message |-> message, content |-> content, text |-> text]

Completion(text) == Body(TRUE, "object", "list", "object", "object", "string", text)

(* The value of bot_reply after lines 145-152: a Python value, a string    *)
(* (is_str) or not.                                                        *)
PyStr(text) == [is_str |-> TRUE, text |-> text]

PyNone == [is_str |-> FALSE, text |-> <<>>]

ParseReply(body) ==
    IF ~body.valid THEN PyStr(UNREADABLE_REPLY)                \* json() raises
    ELSE IF body.root = "null" THEN PyStr(UNREADABLE_REPLY)    \* "choices" in None
    ELSE IF body.root = "array" THEN PyStr(NO_CHOICES_REPLY)   \* not an element
    ELSE IF body.choices \in {"missing", "empty", "null"} THEN PyStr(NO_CHOICES_REPLY)
    ELSE IF body.first # "object" THEN PyStr(UNREADABLE_REPLY)     \* TypeError
    ELSE IF body.message # "object" THEN PyStr(UNREADABLE_REPLY)   \* KeyError, TypeError
    ELSE IF body.content = "missing" THEN PyStr(UNREADABLE_REPLY)  \* KeyError
    ELSE IF body.content = "null" THEN PyNone
    ELSE PyStr(body.text)

(* Lines 156-162: the two appends and the truncation to the last 20. *)
Last(s, n) == IF Len(s) > n THEN SubSeq(s, Len(s) - n + 1, Len(s)) ELSE s

UpdateHistoryNoTruncate(history, user_message, bot_reply) ==
    history \o <<[role |-> "user", content |-> user_message],
                 [role |-> "assistant", content |-> bot_reply]>>

UpdateHistory(history, user_message, bot_reply) ==
    LET appended ==
            history \o <<[role |-> "user", content |-> user_message],
                         [role |-> "assistant", content |-> bot_reply]>>
    IN  IF Len(appended) > HISTORY_CAP THEN Last(appended, HISTORY_CAP) ELSE appended

(* jsonify({key: value}): a 200 response with a one-key JSON object. *)
Jsonify(key, value) == [status |-> HTTP_OK, key |-> key, value |-> value]

(* Flask answers an exception that leaves the view function with status 500. *)
Unhandled == [status |-> 500, key |-> "", value |-> <<>>]

NoResponse == [status |-> 0, key |-> "", value |-> <<>>]

----------------------------------------------------------------------------
(* chat(), lines 83-168, as a function of the session it finds, the request *)
(* and the upstream answer.  exit names the return statement reached:       *)
(* "empty" 91, "limit" 99, "network" 133, "status" 143, "reply" 168, and     *)
(* "raised" for the AttributeError of line 154 on a reply that is no string. *)

(* log_qa, lines 64-74: one call; the record reaches chat_log.txt when the *)
(* sink works (sink_ok), and an error of the sink is swallowed.             *)
NoLog == [calls |-> 0, ok |-> TRUE, written |-> <<>>, raised |-> FALSE]

log_qa_raises(question, reply, mode, sink_ok) ==
    [calls |-> 1, ok |-> sink_ok,
     written |-> IF sink_ok
                 THEN <<[mode |-> mode, question |-> question, answer |-> reply]>>
                 ELSE <<>>,
     raised |-> ~sink_ok]

log_qa(question, reply, mode, sink_ok) ==
    [calls |-> 1, ok |-> sink_ok,
     written |-> IF sink_ok
                 THEN <<[mode |-> mode, question |-> question, answer |-> reply]>>
                 ELSE <<>>,
     raised |-> FALSE]

Exit(history, count, resp, exit, n_posts, selected, prompt) ==
    [history |-> history, count |-> count, response |-> resp, exit |-> exit,
     posts |-> n_posts, mode |-> selected, prompt |-> prompt,
     messages |-> <<>>, effects |-> <<>>, log |-> NoLog]

(* An exit after requests.post: the list posted, the effects so far. *)
Posted(exit, messages, done, log) ==
    [exit EXCEPT !.messages = messages, !.effects = done, !.log = log]

(* Lines 157-166 in the order the handler runs them. *)
ReplyEffects ==
    <<"post", "append_user", "append_assistant", "truncate", "increment", "log">>

chat_result(history, count, req, up, sink_ok) ==
    LET user_message == UserMessage(req)
        selected == Mode(req)
    IN  IF user_message = <<>> THEN
            Exit(history, count, Jsonify("reply", EMPTY_REPLY), "empty", 0,
                 selected, <<>>)
        ELSE IF LimitReached(count) THEN
            Exit(history, count, Jsonify("reply", LIMIT_REPLY), "limit", 0,
                 selected, <<>>)
        ELSE
            LET prompt == build_system_prompt(selected)
                messages == Messages(history, prompt, user_message)
            IN  IF up.raises THEN
                    Posted(Exit(history, count, Jsonify("reply", NETWORK_REPLY),
                                "network", 1, selected, prompt),
                           messages, <<"post">>, NoLog)
                ELSE IF ~StatusOk(up.status_code) THEN
                    Posted(Exit(history, count,
                                Jsonify("reply", STATUS_REPLY(up.status_code)),
                                "status", 1, selected, prompt),
                           messages, <<"post">>, NoLog)
                ELSE
                    LET parsed == ParseReply(up.body)
                    IN  IF ~parsed.is_str THEN
                            Posted(Exit(history, count, Unhandled, "raised", 1,
                                        selected, prompt),
                                   messages, <<"post">>, NoLog)
                        ELSE
                            LET bot_reply == Strip(parsed.text)
                                log == log_qa(user_message, bot_reply, selected,
                                              sink_ok)
                                updated ==
                                    UpdateHistory(history, user_message, bot_reply)
                            IN  IF log.raised THEN
                                    Posted(Exit(updated, count + 1, Unhandled,
                                                "raised", 1, selected, prompt),
                                           messages, ReplyEffects, log)
                                ELSE
                                    Posted(Exit(updated, count + 1,
                                                Jsonify("reply", bot_reply),
                                                "reply", 1, selected, prompt),
                                           messages, ReplyEffects, log)

(* reset(), lines 172-177. *)
ResetKeepsCount(count) == count

ResetCount(count) == 0

reset_result(history, count) ==
    Exit(<<>>, ResetCount(count), Jsonify("status", <<"ok">>), "reset", 0,
         <<>>, <<>>)

----------------------------------------------------------------------------
(* Inputs *)

MessageInputs == {<<" ">>, <<" ", "a", " ">>}

ModeInputs ==
    {<<"m","c","a">>, <<"M","C","A">>, <<"I","n","t","e","r","v","i","e","w">>,
     <<"c","o","d","e">>, <<"C","o","d","e">>, <<"c","h","a","t">>,
     <<" ","m","c","a">>, <<"G","e","n","e","r","a","l">>}

Request(keys, message, mode) == [keys |-> keys, message |-> message, mode |-> mode]

(* The session specification varies the message and leaves the mode out;  *)
(* the mode specification varies the mode over a blank and a real message. *)
Requests ==
    {Request({"message"}, m, <<>>) : m \in MessageInputs}
    \cup {Request({}, <<>>, <<>>)}

ModeRequests ==
    {Request({"message", "mode"}, m, md) :
        m \in {<<" ">>, <<" ", "a", " ">>}, md \in ModeInputs}
    \cup {Request({"message"}, <<" ", "a", " ">>, <<>>)}

NoBody == Body(FALSE, "null", "missing", "null", "missing", "missing", <<>>)

MalformedBodies ==
    {NoBody,
     Body(TRUE, "object", "missing", "null", "missing", "missing", <<>>),
     Body(TRUE, "object", "empty", "null", "missing", "missing", <<>>),
     Body(TRUE, "object", "list", "object", "object", "missing", <<>>)}

NonStringBodies ==
    {Body(TRUE, "object", "list", "object", "object", "null", <<>>)}

ContentInputs == {<<" ", "x", " ">>}

CompletionBodies == {Completion(t) : t \in ContentInputs}

WellFormed(body) == body \in CompletionBodies

Answer(raises, status_code, body) ==
    [raises |-> raises, status_code |-> status_code, body |-> body]

Upstreams ==
    {Answer(TRUE, 0, NoBody), Answer(FALSE, 429, NoBody), Answer(FALSE, 500, NoBody)}
    \cup {Answer(FALSE, HTTP_OK, b) :
            b \in MalformedBodies \cup NonStringBodies \cup CompletionBodies}

ModeUpstreams ==
    {Answer(TRUE, 0, NoBody), Answer(FALSE, HTTP_OK, Completion(<<" ", "x", " ">>))}

(* The upstream "answer" of a request that never calls upstream. *)
NotCalled == Answer(FALSE, 0, NoBody)

(* The request of a state no /chat request led to. *)
NoRequest == Request({}, <<>>, <<>>)

PlainContents == {<<"a">>, <<"x">>}

Varied(history) == {i \in DOMAIN history : history[i].content \notin PlainContents}

Highest(S) == CHOOSE i \in S : \A j \in S : j <= i

Lowest(S) == CHOOSE i \in S : \A j \in S : i <= j

(* The number of consecutive exchanges the varied entries span. *)
Burst(history) ==
    LET v == Varied(history)
    IN  IF v = {} THEN 0 ELSE ((Highest(v) - Lowest(v)) \div 2) + 1

----------------------------------------------------------------------------
(* The state machine: requests are handled one at a time. *)

(* app.run (line 182) serves each request on a thread of its own; at most  *)
(* MaxInFlight /chat requests are in flight together.                      *)
MaxInFlight == 2

Threads == 1..MaxInFlight

(* How many requests of a run start while another request is under way. *)
MaxOverlaps == 1

(* A thread with no request; the locals of chat() are empty. *)
Idle ==
    [pc |-> "idle", user_message |-> <<>>, mode |-> <<>>, messages |-> <<>>,
     bot_reply |-> <<>>, kept |-> <<>>, kept_origins |-> <<>>,
     checked |-> 0, loaded |-> 0,
     stale |-> FALSE, abandoned |-> FALSE]

Init ==
    /\ flight = [t \in Threads |-> Idle]
    /\ resetting = FALSE
    /\ origins = <<>>
    /\ stale_turns = 0
    /\ overlaps = 0
    /\ conversation_history = <<>>
    /\ question_count = 0
    /\ request = NoRequest
    /\ answer = NotCalled
    /\ response = NoResponse
    /\ outcome = "start"
    /\ posts = 0
    /\ last_mode = <<>>
    /\ system_prompt = <<>>
    /\ sent = <<>>
    /\ effects = <<>>
    /\ logged = NoLog
    /\ successes = 0
    /\ exchanges = <<>>

(* The states of the logging sink worth telling apart for an answer: the  *)
(* sink is reached only by an answer the handler reads a reply from.       *)
Sinks(up) ==
    IF ~up.raises /\ StatusOk(up.status_code) /\ ParseReply(up.body).is_str
    THEN BOOLEAN
    ELSE {TRUE}

(* One /chat request, start to end.  up is the upstream answer it gets,    *)
(* NotCalled exactly when it issues no upstream call; sink_ok tells whether *)
(* chat_log.txt can be written, and matters only when log_qa is called.     *)
chat(req, up, sink_ok) ==
    \E r \in {chat_result(conversation_history, question_count, req, up, sink_ok)} :
        LET ok == r.posts = 1 /\ StatusOk(up.status_code) /\ ~up.raises
                  /\ WellFormed(up.body)
        IN  /\ (up = NotCalled) <=> (r.posts = 0)
            /\ (r.log.calls = 0) => sink_ok
            /\ Burst(r.history) <= MaxBurst
            /\ conversation_history' = r.history
            /\ question_count' = r.count
            /\ request' = req
            /\ answer' = up
            /\ response' = r.response
            /\ outcome' = r.exit
            /\ posts' = r.posts
            /\ last_mode' = r.mode
            /\ system_prompt' = r.prompt
            /\ sent' = r.messages
            /\ effects' = r.effects
            /\ logged' = r.log
            /\ successes' = IF ok THEN successes + 1 ELSE successes
            /\ exchanges' =
                  IF ok
                  THEN Last(exchanges \o
                            <<[role |-> "user", content |-> Strip(req.message)],
                              [role |-> "assistant",
                               content |-> Strip(up.body.text)]>>,
                            HISTORY_CAP)
                  ELSE exchanges
            /\ UNCHANGED threads

(* One /reset request. *)
reset ==
    \E r \in {reset_result(conversation_history, question_count)} :
        /\ conversation_history' = r.history
        /\ question_count' = r.count
        /\ request' = NoRequest
        /\ answer' = NotCalled
        /\ response' = r.response
        /\ outcome' = r.exit
        /\ posts' = r.posts
        /\ last_mode' = r.mode
        /\ system_prompt' = r.prompt
        /\ sent' = r.messages
        /\ effects' = r.effects
        /\ logged' = r.log
        /\ successes' = 0
        /\ exchanges' = <<>>
        /\ UNCHANGED threads

Next ==
    \/ \E req \in Requests, up \in Upstreams \cup {NotCalled} :
          \E sink_ok \in Sinks(up) : chat(req, up, sink_ok)
    \/ reset

Spec == Init /\ [][Next]_vars

NextModes ==
    \/ \E req \in ModeRequests, up \in ModeUpstreams \cup {NotCalled} :
          chat(req, up, TRUE)
    \/ reset

SpecModes == Init /\ [][NextModes]_vars

----------------------------------------------------------------------------
(* Requests served side by side.  A step is one read or one write of the   *)
(* shared session, together with the statements before it that touch only  *)
(* the locals of its request.                                              *)

ThreadRequests == {Request({"message"}, <<" ", "a", " ">>, <<>>)}

ThreadUpstreams ==
    {Answer(TRUE, 0, NoBody),
     Answer(FALSE, HTTP_OK, Completion(<<" ", "x", " ">>))}

Busy == {t \in Threads : flight[t].pc # "idle"}

(* A request starting now starts beside another one. *)
Beside == IF Busy # {} \/ resetting THEN 1 ELSE 0

(* Lines 86-99: read the request, then the limit check reads the counter.  *)
(* The request is served by the first thread that is free.                 *)
chat_check(t, req) ==
    /\ flight[t].pc = "idle"
    /\ \A u \in Threads : u < t => flight[u].pc # "idle"
    /\ overlaps + Beside <= MaxOverlaps
    /\ overlaps' = overlaps + Beside
    /\ UserMessage(req) # <<>>
    /\ ~LimitReached(question_count)
    /\ flight' = [flight EXCEPT ![t] =
                    [Idle EXCEPT !.pc = "build",
                                 !.checked = question_count,
                                 !.user_message = UserMessage(req),
                                 !.mode = Mode(req)]]
    /\ UNCHANGED <<conversation_history, question_count, resetting, origins,
                   stale_turns>>
    /\ UNCHANGED observers

(* Lines 108-131: the message list reads the stored history; the upstream  *)
(* call is issued.                                                         *)
chat_build(t) ==
    /\ flight[t].pc = "build"
    /\ flight' = [flight EXCEPT ![t].pc = "post",
                                ![t].messages =
                                    Messages(conversation_history,
                                             build_system_prompt(flight[t].mode),
                                             flight[t].user_message)]
    /\ UNCHANGED <<conversation_history, question_count, resetting, origins,
                   stale_turns, overlaps>>
    /\ UNCHANGED observers

(* The caller gives up while the upstream call is out; the handler is not  *)
(* told and reads nothing about it.                                        *)
abandon(t) ==
    /\ flight[t].pc = "post"
    /\ ~flight[t].abandoned
    /\ flight' = [flight EXCEPT ![t].abandoned = TRUE]
    /\ UNCHANGED <<conversation_history, question_count, resetting, origins,
                   stale_turns, overlaps>>
    /\ UNCHANGED observers

(* Lines 125-154: the upstream answer arrives; the message list is not     *)
(* read again.                                                             *)
chat_post(t, up) ==
    /\ flight[t].pc = "post"
    /\ flight' =
          IF up.raises \/ ~StatusOk(up.status_code) \/ ~ParseReply(up.body).is_str
          THEN [flight EXCEPT ![t] = Idle]
          ELSE [flight EXCEPT ![t].pc = "append_user",
                              ![t].messages = <<>>,
                              ![t].bot_reply = Strip(ParseReply(up.body).text)]
    /\ UNCHANGED <<conversation_history, question_count, resetting, origins,
                   stale_turns, overlaps>>
    /\ UNCHANGED observers

(* Line 157. *)
chat_append_user(t) ==
    /\ flight[t].pc = "append_user"
    /\ conversation_history' =
          Append(conversation_history,
                 [role |-> "user", content |-> flight[t].user_message])
    /\ origins' = Append(origins, flight[t].stale)
    /\ flight' = [flight EXCEPT ![t].pc = "append_assistant"]
    /\ UNCHANGED <<question_count, resetting, stale_turns, overlaps>>
    /\ UNCHANGED observers

(* Line 158. *)
chat_append_assistant(t) ==
    /\ flight[t].pc = "append_assistant"
    /\ conversation_history' =
          Append(conversation_history,
                 [role |-> "assistant", content |-> flight[t].bot_reply])
    /\ origins' = Append(origins, flight[t].stale)
    /\ flight' = [flight EXCEPT ![t].pc = "truncate"]
    /\ UNCHANGED <<question_count, resetting, stale_turns, overlaps>>
    /\ UNCHANGED observers

(* Lines 161-162, the reads: the length, and the slice of the last 20     *)
(* turns as a list of its own.                                             *)
chat_truncate_slice(t) ==
    /\ flight[t].pc = "truncate"
    /\ flight' =
          IF Len(conversation_history) > HISTORY_CAP
          THEN [flight EXCEPT ![t].pc = "truncate_store",
                              ![t].kept = Last(conversation_history, HISTORY_CAP),
                              ![t].kept_origins = Last(origins, HISTORY_CAP)]
          ELSE [flight EXCEPT ![t].pc = "increment"]
    /\ UNCHANGED <<conversation_history, question_count, resetting, origins,
                   stale_turns, overlaps>>
    /\ UNCHANGED observers

(* Line 162, the write: the stored list takes the content of the slice. *)
chat_truncate_store(t) ==
    /\ flight[t].pc = "truncate_store"
    /\ conversation_history' = flight[t].kept
    /\ origins' = flight[t].kept_origins
    /\ flight' = [flight EXCEPT ![t].pc = "increment",
                                ![t].kept = <<>>,
                                ![t].kept_origins = <<>>]
    /\ UNCHANGED <<question_count, resetting, stale_turns, overlaps>>
    /\ UNCHANGED observers

(* Line 165, the read of question_count += 1. *)
chat_increment_load(t) ==
    /\ flight[t].pc = "increment"
    /\ flight' = [flight EXCEPT ![t].pc = "increment_store",
                                ![t].loaded = question_count]
    /\ UNCHANGED <<conversation_history, question_count, resetting, origins,
                   stale_turns, overlaps>>
    /\ UNCHANGED observers

(* Lines 165-168: the write of question_count += 1, then log_qa and the    *)
(* reply.                                                                  *)
chat_increment_store(t) ==
    /\ flight[t].pc = "increment_store"
    /\ question_count' = flight[t].loaded + 1
    /\ stale_turns' = IF flight[t].stale THEN stale_turns + 1 ELSE stale_turns
    /\ flight' = [flight EXCEPT ![t] = Idle]
    /\ UNCHANGED <<conversation_history, resetting, origins, overlaps>>
    /\ UNCHANGED observers

(* Line 174: every request in flight has now started before this reset. *)
reset_clear ==
    /\ ~resetting
    /\ overlaps + Beside <= MaxOverlaps
    /\ overlaps' = overlaps + Beside
    /\ resetting' = TRUE
    /\ conversation_history' = <<>>
    /\ origins' = <<>>
    /\ flight' = [t \in Threads |->
                    IF flight[t].pc = "idle" THEN flight[t]
                    ELSE [flight[t] EXCEPT !.stale = TRUE]]
    /\ UNCHANGED <<question_count, stale_turns>>
    /\ UNCHANGED observers

(* Lines 175-177. *)
reset_count ==
    /\ resetting
    /\ resetting' = FALSE
    /\ question_count' = ResetCount(question_count)
    /\ stale_turns' = 0
    /\ UNCHANGED <<conversation_history, flight, origins, overlaps>>
    /\ UNCHANGED observers

NextThreads ==
    \/ \E t \in Threads, req \in ThreadRequests : chat_check(t, req)
    \/ \E t \in Threads : chat_build(t)
    \/ \E t \in Threads, up \in ThreadUpstreams : chat_post(t, up)
    \/ \E t \in Threads : chat_append_user(t)
    \/ \E t \in Threads : chat_append_assistant(t)
    \/ \E t \in Threads : chat_truncate_slice(t)
    \/ \E t \in Threads : chat_truncate_store(t)
    \/ \E t \in Threads : chat_increment_load(t)
    \/ \E t \in Threads : chat_increment_store(t)
    \/ reset_clear
    \/ reset_count

SpecThreads == Init /\ [][NextThreads]_vars

(* One /chat request at a time, whose caller may give up while the         *)
(* upstream call is out, and /reset beside it.                             *)
NextAbandon ==
    \/ \E req \in ThreadRequests : chat_check(1, req)
    \/ chat_build(1)
    \/ abandon(1)
    \/ \E up \in ThreadUpstreams : chat_post(1, up)
    \/ chat_append_user(1)
    \/ chat_append_assistant(1)
    \/ chat_truncate_slice(1)
    \/ chat_truncate_store(1)
    \/ chat_increment_load(1)
    \/ chat_increment_store(1)
    \/ reset_clear
    \/ reset_count

SpecAbandon == Init /\ [][NextAbandon]_vars

----------------------------------------------------------------------------
(* Properties *)

Pair(user_text, assistant_text) ==
    <<[role |-> "user", content |-> user_text],
      [role |-> "assistant", content |-> assistant_text]>>

(* The message of a request as the handler reads it: '' when the key is    *)
(* missing, whitespace trimmed at both ends.                               *)
Trimmed(req) == IF "message" \in req.keys THEN Strip(req.message) ELSE <<>>

IsMalformed200(up) ==
    ~up.raises /\ up.status_code = HTTP_OK /\ up.body \in MalformedBodies

IsFailure(up) == up.raises \/ up.status_code # HTTP_OK

IsCompletion200(up) ==
    ~up.raises /\ up.status_code = HTTP_OK /\ up.body \in CompletionBodies

SessionUnchanged == UNCHANGED <<conversation_history, question_count>>

(* C1: a /chat call whose upstream answer is a 200 with a malformed body    *)
(* (not JSON, no non-empty choices list, first choice without               *)
(* message.content) returns a fixed error string and leaves the history and *)
(* the turn counter as they were.                                           *)
C1_MalformedBodyLeavesSession ==
    [][IsMalformed200(answer') =>
          /\ response' \in {Jsonify("reply", NO_CHOICES_REPLY),
                            Jsonify("reply", UNREADABLE_REPLY)}
          /\ SessionUnchanged]_vars

(* C2: a /chat call whose upstream call raises, or answers with a status    *)
(* other than 200, returns the fixed error string of that failure and       *)
(* leaves the history and the turn counter as they were, in every session   *)
(* state; so such calls never count toward the limit.                       *)
C2_FailedCallLeavesSession ==
    [][(posts' = 1 /\ IsFailure(answer')) =>
          /\ response' =
               Jsonify("reply",
                       IF answer'.raises THEN NETWORK_REPLY
                       ELSE STATUS_REPLY(answer'.status_code))
          /\ SessionUnchanged]_vars

(* C2 witness: an HTTP 500 met by a session of 2 stored turns and counter 1 *)
(* (one earlier successful turn), which is still in that state.             *)
C2_Witness ==
    /\ outcome = "status"
    /\ answer = Answer(FALSE, 500, NoBody)
    /\ response = Jsonify("reply", STATUS_REPLY(500))
    /\ successes = 1
    /\ question_count = 1
    /\ Len(conversation_history) = 2

(* C3: after exactly 40 successful turns since the start or the last reset, *)
(* a /chat call whose message is not empty (after trimming, which comes     *)
(* first) returns the limit reply, issues no upstream call and leaves the   *)
(* history unchanged and the counter unchanged at 40.                       *)
C3_LimitRejects ==
    [][(successes = QUESTION_LIMIT /\ outcome' # "reset" /\ Trimmed(request') # <<>>) =>
          /\ response' = Jsonify("reply", LIMIT_REPLY)
          /\ posts' = 0
          /\ answer' = NotCalled
          /\ conversation_history' = conversation_history
          /\ question_count = QUESTION_LIMIT
          /\ question_count' = QUESTION_LIMIT]_vars

(* C3 witness: the 41st call after 40 successful turns was rejected. *)
C3_Witness ==
    /\ successes = QUESTION_LIMIT
    /\ outcome = "limit"
    /\ Trimmed(request) = <<"a">>
    /\ question_count = QUESTION_LIMIT
    /\ Len(conversation_history) = HISTORY_CAP
    /\ response = Jsonify("reply", LIMIT_REPLY)

(* C4: after N >= 1 successful turns since the start or the last reset the  *)
(* stored history holds min(2N, 20) entries, whatever failed, empty-input   *)
(* or limit-rejected calls came in between.                                 *)
C4_HistoryLength ==
    successes >= 1 =>
        Len(conversation_history) = Min(2 * successes, HISTORY_CAP)

(* C5: the stored history is the most recent min(N, 10) successful          *)
(* exchanges, oldest first, each as its user turn followed by its assistant *)
(* turn; eviction removes whole pairs from the front.                       *)
C5_HistoryIsRecentExchanges == conversation_history = exchanges

(* C6: after /reset the stored history is empty and the turn counter is 0,  *)
(* whatever the session was before; reset issues no upstream call, and a    *)
(* second reset changes nothing.                                            *)
C6_ResetClearsSession ==
    outcome = "reset" =>
        /\ conversation_history = <<>>
        /\ question_count = 0
        /\ posts = 0
        /\ answer = NotCalled
        /\ response = Jsonify("status", <<"ok">>)
        /\ LET again == reset_result(conversation_history, question_count)
           IN  /\ again.history = conversation_history
               /\ again.count = question_count

(* C6 witness: a reset has run and left the empty session. *)
C6_Witness ==
    /\ outcome = "reset"
    /\ conversation_history = <<>>
    /\ question_count = 0
    /\ successes = 0

(* C7: a /chat call whose message is empty after trimming returns the       *)
(* prompt-for-input reply, issues no upstream call, is not answered with    *)
(* the limit reply, and leaves the history and the turn counter unchanged,  *)
(* in every session state, the exhausted one included.                      *)
C7_EmptyMessage ==
    [][(outcome' # "reset" /\ Trimmed(request') = <<>>) =>
          /\ response' = Jsonify("reply", EMPTY_REPLY)
          /\ posts' = 0
          /\ answer' = NotCalled
          /\ SessionUnchanged]_vars

(* C7 witness: a blank message met the exhausted session and was answered   *)
(* with the prompt for input.                                               *)
C7_Witness ==
    /\ outcome = "empty"
    /\ "message" \in request.keys
    /\ request.message = <<" ">>
    /\ question_count = QUESTION_LIMIT
    /\ response = Jsonify("reply", EMPTY_REPLY)

(* C8: every /chat call ends with a success status carrying a reply, for    *)
(* every request and every upstream outcome.                                *)
C8_AlwaysReplies ==
    outcome \notin {"start", "reset"} =>
        /\ response.status = HTTP_OK
        /\ response.key = "reply"

(* C9: on a successful turn (upstream 200 with a well-formed completion)    *)
(* the reply is the trimmed content of the first choice, the pair [user:    *)
(* trimmed message, assistant: trimmed reply] is appended to the history    *)
(* (the window keeping its last 20 entries), and the turn counter grows by  *)
(* exactly 1; from the empty session: 2 entries and counter 1.              *)
C9_SuccessfulTurn ==
    [][(posts' = 1 /\ IsCompletion200(answer')) =>
          LET u == Trimmed(request')
              a == Strip(answer'.body.text)
              n == Len(conversation_history')
          IN  /\ response' = Jsonify("reply", a)
              /\ n = Min(Len(conversation_history) + 2, HISTORY_CAP)
              /\ SubSeq(conversation_history', n - 1, n) = Pair(u, a)
              /\ SubSeq(conversation_history', 1, n - 2)
                   = Last(conversation_history, n - 2)
              /\ question_count' = question_count + 1
              /\ (conversation_history = <<>> /\ question_count = 0) =>
                    (conversation_history' = Pair(u, a) /\ question_count' = 1)]_vars

(* C9 witness: the first turn of a session, message " a " answered " x ". *)
C9_Witness ==
    /\ outcome = "reply"
    /\ request.message = <<" ", "a", " ">>
    /\ answer = Answer(FALSE, HTTP_OK, Completion(<<" ", "x", " ">>))
    /\ response = Jsonify("reply", <<"x">>)
    /\ conversation_history = Pair(<<"a">>, <<"x">>)
    /\ question_count = 1

(* C10: a mode that, lowercased, is none of mca, interview, code compiles   *)
(* to the prompt of general; the mode is matched on its lowercase form; and *)
(* the mode has no part in how the history and the turn counter change.     *)
C10_ModeCompilation ==
    [][outcome' # "reset" =>
          LET given == IF "mode" \in request'.keys THEN request'.mode
                       ELSE MODE_GENERAL
              low == Lower(given)
          IN  /\ last_mode' = low
              /\ (posts' = 1 /\ low \notin {MODE_MCA, MODE_INTERVIEW, MODE_CODE}) =>
                    system_prompt' = build_system_prompt(MODE_GENERAL)
              /\ (posts' = 1 /\ low \in {MODE_MCA, MODE_INTERVIEW, MODE_CODE}) =>
                    /\ system_prompt' = build_system_prompt(low)
                    /\ system_prompt' # build_system_prompt(MODE_GENERAL)
              /\ \A md \in ModeInputs :
                    LET other == chat_result(conversation_history, question_count,
                                             Request(request'.keys \cup {"mode"},
                                                     request'.message, md),
                                             answer', TRUE)
                    IN  /\ other.history = conversation_history'
                        /\ other.count = question_count']_vars

(* C10 witness: the unknown mode "chat" got the prompt of general, and the  *)
(* turn was stored.                                                         *)
C10_Witness ==
    /\ outcome = "reply"
    /\ "mode" \in request.keys
    /\ request.mode = <<"c","h","a","t">>
    /\ system_prompt = build_system_prompt(MODE_GENERAL)
    /\ question_count = 1

(* C11: with requests handled one at a time the turn counter stays within   *)
(* 0..40; it starts at 0, each successful turn raises it by 1, and once it  *)
(* is 40 no /chat call issues an upstream call or changes the counter; the  *)
(* first non-empty message after a /reset is forwarded upstream again.      *)
C11_TurnCounter ==
    /\ question_count = 0
    /\ [][/\ question_count \in 0..QUESTION_LIMIT
          /\ question_count' \in 0..QUESTION_LIMIT
          /\ (posts' = 1 /\ IsCompletion200(answer')) =>
                question_count' = question_count + 1
          /\ (question_count = QUESTION_LIMIT /\ outcome' # "reset") =>
                /\ posts' = 0
                /\ answer' = NotCalled
                /\ sent' = <<>>
                /\ question_count' = QUESTION_LIMIT
          /\ (outcome = "reset" /\ outcome' # "reset" /\ Trimmed(request') # <<>>) =>
                /\ posts' = 1
                /\ answer' # NotCalled
                /\ sent' # <<>>]_vars

(* C11 witness: the counter stands at 40 and a /chat call with a message    *)
(* was turned away without an upstream call.                                *)
C11_Witness ==
    /\ question_count = QUESTION_LIMIT
    /\ outcome = "limit"
    /\ posts = 0
    /\ sent = <<>>
    /\ answer = NotCalled

(* C15: the list a /chat call posts is one system turn (the prompt compiled *)
(* for this request), then the stored history in its stored order, then the *)
(* new user turn; no system turn is ever stored, and with requests handled  *)
(* one at a time the list has at most 22 entries.                           *)
C15_MessageList ==
    [][/\ posts' = 1 =>
             LET n == Len(sent')
             IN  /\ n = Len(conversation_history) + 2
                 /\ n <= HISTORY_CAP + 2
                 /\ sent'[1] = [role |-> "system",
                                content |-> build_system_prompt(Mode(request'))]
                 /\ SubSeq(sent', 2, n - 1) = conversation_history
                 /\ sent'[n] = [role |-> "user", content |-> Trimmed(request')]
                 /\ \A i \in 2..n : sent'[i].role # "system"
       /\ \A i \in 1..Len(conversation_history') :
             conversation_history'[i].role \in {"user", "assistant"}]_vars

(* C15 witness: a full window of 20 stored turns went upstream between the  *)
(* system turn and the new user turn, 22 entries in all.                    *)
C15_Witness ==
    /\ posts = 1
    /\ Len(sent) = HISTORY_CAP + 2
    /\ sent[1].role = "system"
    /\ sent[2] = [role |-> "user", content |-> <<"a">>]
    /\ sent[HISTORY_CAP + 1].role = "assistant"
    /\ sent[HISTORY_CAP + 2] = [role |-> "user", content |-> <<"a">>]

(* C16: a /chat call issues at most one upstream call: exactly one when the *)
(* trimmed message is not empty and the counter is below 40, none           *)
(* otherwise; a call that failed (exception or non-200) is not repeated.    *)
C16_OneUpstreamCall ==
    [][outcome' # "reset" =>
          /\ posts' \in {0, 1}
          /\ posts' = 1 <=>
                (Trimmed(request') # <<>> /\ question_count < QUESTION_LIMIT)
          /\ posts' = 0 <=> answer' = NotCalled
          /\ posts' = 0 <=> sent' = <<>>
          /\ Cardinality({i \in 1..Len(effects') : effects'[i] = "post"}) = posts'
          /\ IsFailure(answer') /\ answer' # NotCalled =>
                (posts' = 1 /\ effects' = <<"post">>)]_vars

(* C16 witness: at counter 39 a message went upstream once, the call raised *)
(* and the request ended there.                                             *)
C16_Witness ==
    /\ outcome = "network"
    /\ answer.raises
    /\ posts = 1
    /\ effects = <<"post">>
    /\ question_count = QUESTION_LIMIT - 1
    /\ response = Jsonify("reply", NETWORK_REPLY)

Position(seq, e) == CHOOSE i \in 1..Len(seq) : seq[i] = e

Count(seq, e) == Cardinality({i \in 1..Len(seq) : seq[i] = e})

(* C18: log_qa is called exactly once on a successful turn, after the       *)
(* appends and the increment, and not at all for an empty message, a        *)
(* reached limit, a failed upstream call or a non-200 answer; whether the   *)
(* sink could write or not, the reply, the history and the counter are the  *)
(* same.                                                                    *)
C18_LoggingSink ==
    [][outcome' # "reset" =>
          /\ (posts' = 1 /\ IsCompletion200(answer')) =>
                LET u == Trimmed(request')
                    a == Strip(answer'.body.text)
                    n == Len(conversation_history')
                IN  /\ logged'.calls = 1
                    /\ Count(effects', "log") = 1
                    /\ Position(effects', "log") > Position(effects', "append_user")
                    /\ Position(effects', "log") > Position(effects', "append_assistant")
                    /\ Position(effects', "log") > Position(effects', "increment")
                    /\ logged'.written =
                          IF logged'.ok
                          THEN <<[mode |-> Mode(request'), question |-> u, answer |-> a]>>
                          ELSE <<>>
                    /\ response' = Jsonify("reply", a)
                    /\ conversation_history' =
                          Last(conversation_history \o Pair(u, a), HISTORY_CAP)
                    /\ question_count' = question_count + 1
          /\ (\/ Trimmed(request') = <<>>
              \/ question_count >= QUESTION_LIMIT
              \/ (answer' # NotCalled /\ IsFailure(answer'))) =>
                /\ logged' = NoLog
                /\ Count(effects', "log") = 0]_vars

(* C18 witness: on the first turn the sink could not write; the reply, the  *)
(* stored pair and the counter are those of a successful turn.              *)
C18_Witness ==
    /\ outcome = "reply"
    /\ IsCompletion200(answer)
    /\ logged.calls = 1
    /\ ~logged.ok
    /\ logged.written = <<>>
    /\ response = Jsonify("reply", <<"x">>)
    /\ conversation_history = Pair(<<"a">>, <<"x">>)
    /\ question_count = 1

(* C12: with two or more /chat requests in flight the limit check and the   *)
(* increment are not one step: every request past the check read a counter  *)
(* below 40, the counter passes 40 only by the increment of a request that  *)
(* read a lower value at its check than at its increment (others raised it  *)
(* in between), and it stays within 40 + the requests in flight - 1.  The   *)
(* witness shows a counter above 40.                                        *)
C12_LimitOvershoot ==
    [][/\ \A t \in Threads :
             flight[t].pc # "idle" => flight[t].checked < QUESTION_LIMIT
       /\ question_count' <= QUESTION_LIMIT + MaxInFlight - 1
       /\ (question_count' > QUESTION_LIMIT /\ question_count' # question_count) =>
             \E t \in Threads :
                 /\ flight[t].pc = "increment_store"
                 /\ flight'[t].pc = "idle"
                 /\ flight[t].checked < QUESTION_LIMIT
                 /\ flight[t].checked < flight[t].loaded
                 /\ question_count' = flight[t].loaded + 1]_vars

(* C12 witness: two requests passed the check at 39, both have completed    *)
(* and the counter stands at 41.                                            *)
C12_Witness ==
    /\ question_count = QUESTION_LIMIT + 1
    /\ \A t \in Threads : flight[t].pc = "idle"
    /\ ~resetting
    /\ overlaps = 1
    /\ Len(conversation_history) = HISTORY_CAP

(* The stored turns inside the message list of a request. *)
HistoryRead(t) == SubSeq(flight[t].messages, 2, Len(flight[t].messages) - 1)

(* C13: whenever a /chat request reads the stored history to build its      *)
(* message list, the history it reads has an even length of at most 20,     *)
(* whatever the interleaving of /chat and /reset requests.                  *)
C13_HistoryEvenAtRead ==
    \A t \in Threads :
        flight[t].pc = "post" =>
            /\ Len(HistoryRead(t)) % 2 = 0
            /\ Len(HistoryRead(t)) <= HISTORY_CAP

(* C14: once the caller of a /chat request has given up during the         *)
(* upstream call, that request appends nothing to the history and does not  *)
(* raise the counter.                                                       *)
C14_AbandonedIsDiscarded ==
    [][\A t \in Threads :
          (flight[t].abandoned /\ flight'[t] # flight[t]) =>
              /\ conversation_history' = conversation_history
              /\ question_count' = question_count]_vars

(* C17: when every /chat request that was in flight at a /reset has         *)
(* completed, and the reset too, the history holds no turn of such a        *)
(* request and the counter counts none of them.                             *)
C17_ResetNotUndone ==
    (~resetting /\ \A t \in Threads : flight[t].pc = "idle") =>
        /\ \A i \in 1..Len(origins) : ~origins[i]
        /\ stale_turns = 0

====
